---- MODULE Spec2Model ----
(***************************************************************************)
(* Consensus-based optimization: the step of CBO (cbx/dynamic/cbo.py) and  *)
(* of CBOMemory (cbx/dynamic/cbo_memory.py).                               *)
(*                                                                         *)
(* Numbers.  A float is a pair <<n, d>>: a reduced fraction n/d with d > 0,*)
(* or one of the three non-finite values NaN = <<0,0>>, +inf = <<1,0>> and *)
(* -inf = <<-1,0>>.  Arithmetic is exact on the fractions (no rounding) and*)
(* follows IEEE 754 on the non-finite values, as numpy does.               *)
(*                                                                         *)
(* Arrays.  An array of shape [M, J, d] is taken with d = 1: a function    *)
(* from the ensemble m to the row <<x[m,1], ..., x[m,J]>>.  The code never *)
(* mixes components of the last axis.                                      *)
(*                                                                         *)
(* alpha is AlphaLog2 * ln 2 and the objective returns integers or         *)
(* non-finite values, so that exp(-alpha * energy) = 2^(-AlphaLog2*energy) *)
(* is a fraction.                                                          *)
(***************************************************************************)
EXTENDS Integers, Sequences, FiniteSets, TLC

\* ------------------------------------------------------------- bounds ---
\* number of ensembles (the M axis)
M == 2
\* number of particles of an ensemble (the J axis)
J == 2
\* number of step() calls made on one dynamic
MaxSteps == 2
\* initial positions are the integers 0..MaxPos
MaxPos == 2
\* alpha in units of ln 2
AlphaLog2 == 1

\* ------------------------------------------------------------ numbers ---
NaN  == <<0, 0>>
PInf == <<1, 0>>
NInf == <<-1, 0>>

Abs(n) == IF n < 0 THEN -n ELSE n

Sgn(n) == IF n < 0 THEN -1 ELSE IF n > 0 THEN 1 ELSE 0

RECURSIVE GCD(_, _)
GCD(a, b) == IF b = 0 THEN a ELSE GCD(b, a % b)

\* the reduced fraction n/d, d # 0
Frac(n, d) ==
    LET Reduced(g) == IF d < 0 THEN <<(-n) \div g, (-d) \div g>> ELSE <<n \div g, d \div g>>
    IN  Reduced(GCD(Abs(n), Abs(d)))

Num(n) == <<n, 1>>

IsNaN(a) == a = NaN
IsFinite(a) == a[2] # 0
IsInf(a) == a[2] = 0 /\ a[1] # 0

Neg(a) == <<-a[1], a[2]>>

\* a + b
Add(a, b) ==
    IF IsNaN(a) \/ IsNaN(b) THEN NaN
    ELSE IF IsFinite(a) /\ IsFinite(b) THEN Frac(a[1] * b[2] + b[1] * a[2], a[2] * b[2])
    ELSE IF IsFinite(a) THEN b
    ELSE IF IsFinite(b) THEN a
    ELSE IF a = b THEN a ELSE NaN

\* a - b
Sub(a, b) == Add(a, Neg(b))

\* a * b
Mul(a, b) ==
    IF IsNaN(a) \/ IsNaN(b) THEN NaN
    ELSE IF IsFinite(a) /\ IsFinite(b) THEN Frac(a[1] * b[1], a[2] * b[2])
    ELSE IF a[1] = 0 \/ b[1] = 0 THEN NaN
    ELSE <<Sgn(a[1]) * Sgn(b[1]), 0>>

\* a / b, for b >= 0
Div(a, b) ==
    IF IsNaN(a) \/ IsNaN(b) THEN NaN
    ELSE IF IsInf(a) /\ IsInf(b) THEN NaN
    ELSE IF IsInf(b) THEN Num(0)
    ELSE IF b[1] = 0 THEN (IF a[1] = 0 THEN NaN ELSE <<Sgn(a[1]), 0>>)
    ELSE IF IsInf(a) THEN a
    ELSE Frac(a[1] * b[2], a[2] * b[1])

\* a > b as a float comparison: false when either side is NaN
Gt(a, b) ==
    IF IsNaN(a) \/ IsNaN(b) THEN FALSE
    ELSE IF IsFinite(a) /\ IsFinite(b) THEN a[1] * b[2] > b[1] * a[2]
    ELSE IF IsFinite(a) THEN b = NInf
    ELSE IF IsFinite(b) THEN a = PInf
    ELSE a = PInf /\ b = NInf

\* a <= b as a float comparison: false when either side is NaN
Le(a, b) == ~IsNaN(a) /\ ~IsNaN(b) /\ ~Gt(a, b)

\* numpy.minimum: NaN when either side is NaN
Minimum(a, b) ==
    IF IsNaN(a) \/ IsNaN(b) THEN NaN
    ELSE IF Gt(a, b) THEN b ELSE a

\* the square root of a fraction whose numerator and denominator are squares
Sqrt(a) ==
    LET r(n) == CHOOSE k \in 0..n : k * k = n
    IN  <<r(a[1]), r(a[2])>>

RECURSIVE Pow2(_)
Pow2(n) == IF n = 0 THEN 1 ELSE 2 * Pow2(n - 1)

\* 2^w for an integer-valued or non-finite w
Exp2(w) ==
    IF IsNaN(w) THEN NaN
    ELSE IF w = PInf THEN PInf
    ELSE IF w = NInf THEN Num(0)
    ELSE IF w[1] >= 0 THEN Num(Pow2(w[1])) ELSE Frac(1, Pow2(-w[1]))

RECURSIVE SumSeq(_)
SumSeq(s) == IF s = <<>> THEN Num(0) ELSE Add(s[1], SumSeq(Tail(s)))

\* ------------------------------------------------------------- arrays ---
Ensembles == 1..M

Particles == 1..J

\* the array v with every element computed
Force(v) == CHOOSE w \in {v} : w = w

RECURSIVE SortedSeq(_)
\* the elements of a set of integers in ascending order
SortedSeq(S) ==
    IF S = {} THEN <<>>
    ELSE LET lo == CHOOSE a \in S : \A b \in S : a <= b
         IN  <<lo>> \o SortedSeq(S \ {lo})

\* row[idx], numpy's gather by an index array
Gather(row, idx) == [k \in 1..Len(idx) |-> row[idx[k]]]

\* Scatter with the index array read one position off
Scatter_shifted(row, idx, vals) ==
    [j \in 1..Len(row) |->
        IF \E k \in 1..Len(idx) : (idx[k] % Len(row)) + 1 = j
        THEN vals[CHOOSE k \in 1..Len(idx) : (idx[k] % Len(row)) + 1 = j]
        ELSE row[j]]

\* row[idx] = vals, numpy's assignment through an index array
Scatter(row, idx, vals) ==
    [j \in 1..Len(row) |->
        IF \E k \in 1..Len(idx) : idx[k] = j
        THEN vals[CHOOSE k \in 1..Len(idx) : idx[k] = j]
        ELSE row[j]]

\* the index array selecting every particle (numpy's Ellipsis)
AllIdx == [k \in 1..J |-> k]

\* ------------------------------------------------------ collaborators ---
\* Objective.  A pure function of the position given by a table of two
\* entries: the energy of the positions <= 1 and of the positions > 1.
\* A table with equal entries is a constant objective, also on non-finite
\* positions; any other objective is NaN on a non-finite position.
EnergyVals == {Num(0), Num(1), NaN, PInf}

Objectives == [lo : EnergyVals, hi : EnergyVals]

Objective(tab, v) ==
    IF ~IsFinite(v) THEN (IF tab.lo = tab.hi THEN tab.lo ELSE NaN)
    ELSE IF Gt(v, Num(1)) THEN tab.hi ELSE tab.lo

\* self.f applied to an array of rows
EvalF(tab, xa) == [m \in DOMAIN xa |-> [k \in 1..Len(xa[m]) |-> Objective(tab, xa[m][k])]]

\* Batching collaborator: the batch of ensemble m is the window of B
\* consecutive particles that starts at offset o + m, as a sorted index array.
Window(o, m, B) == SortedSeq({((o + m + k) % J) + 1 : k \in 0..(B - 1)})

BatchIdx(o, B) == [m \in Ensembles |-> Window(o, m, B)]

Offsets == 0..(J - 1)

\* Noise model: the component-wise model sqrt(dt) * diff * z, where z is a
\* realization of +1/-1 draws selected by a seed.
NoiseSeeds == {0, 1}

Draw(seed, m, k) == IF (seed + m + k) % 2 = 0 THEN Num(1) ELSE Num(-1)

Noise(dt, diff, seed) ==
    [m \in DOMAIN diff |->
        [k \in 1..Len(diff[m]) |-> Mul(Mul(Sqrt(dt), diff[m][k]), Draw(seed, m, k))]]

\* Correction collaborator: the identity, an array of ones of shape [M, J].
Correction(xa) == [m \in DOMAIN xa |-> [j \in 1..Len(xa[m]) |-> Num(1)]]

\* ---------------------------------------------------------- consensus ---
\* exp(logsumexp(w)) of one row of weights w (in units of ln 2): the sum of
\* the 2^w[k].  It is +inf when a weight is +inf, 0 when all are -inf.
logsumexp(w) == SumSeq([k \in 1..Len(w) |-> Exp2(w[k])])

\* weights = -alpha * energy
Weights(en) == [k \in 1..Len(en) |-> Mul(Num(-AlphaLog2), en[k])]

\* coeffs = exp(weights - logsumexp(weights)): inf - inf and NaN give NaN
Coeffs(w) ==
    LET Normalized(total) == [k \in 1..Len(w) |-> Div(Exp2(w[k]), total)]
    IN  Normalized(logsumexp(w))

\* WeightedMean with the weights normalized over all ensembles at once (a
\* logsumexp without its axis argument)
WeightedMean_all_axes(xb, en) ==
    LET Total == SumSeq([m \in DOMAIN xb |-> logsumexp(Weights(en[m]))])
    IN  [m \in DOMAIN xb |->
            SumSeq([k \in 1..Len(xb[m]) |->
                Mul(xb[m][k], Div(Exp2(Weights(en[m])[k]), Total))])]

\* sum(x_batch * coeffs) along the batch axis, for every ensemble
WeightedMean(xb, en) ==
    LET Sum(xs, c) == SumSeq([k \in 1..Len(xs) |-> Mul(xs[k], c[k])])
    IN  [m \in DOMAIN xb |-> Sum(xb[m], Force(Coeffs(Force(Weights(en[m])))))]

\* CBO.compute_mean: evaluates the objective on the batch, counts
\* batch_size evaluations for every ensemble and returns the consensus.
CBO_compute_mean(tab, nfe, B, xb) ==
    LET Mean(en) ==
            [energy     |-> en,
             num_f_eval |-> [m \in DOMAIN nfe |-> nfe[m] + B],
             mean       |-> Force(WeightedMean(xb, en))]
    IN  Mean(Force(EvalF(tab, xb)))

\* CBOMemory_compute_mean counting one evaluation per call
CBOMemory_compute_mean_once(nfe, B, xb, en) ==
    [num_f_eval |-> [m \in DOMAIN nfe |-> nfe[m] + 1],
     mean       |-> Force(WeightedMean(xb, en))]

\* CBOMemory.compute_mean: counts batch_size evaluations for every ensemble
\* and returns the consensus of the given positions and energies.
CBOMemory_compute_mean(nfe, B, xb, en) ==
    [num_f_eval |-> [m \in DOMAIN nfe |-> nfe[m] + B],
     mean       |-> Force(WeightedMean(xb, en))]

\* --------------------------------------------------------------- step ---
\* CBO_update with the drift added instead of subtracted
CBO_update_plus(c, xb, md, corr, sv) ==
    Add(Add(xb, Mul(Mul(Mul(c.lamda, c.dt), md), corr)), sv)

\* x_batch - lamda * dt * m_diff * correction + s
CBO_update(c, xb, md, corr, sv) ==
    Add(Sub(xb, Mul(Mul(Mul(c.lamda, c.dt), md), corr)), sv)

\* x_batch - m_alpha, and x[ind] - y[ind]: the difference of two arrays, the
\* second broadcast along the batch axis when it has one value per ensemble
m_diff(xb, ma) == [m \in DOMAIN xb |-> [k \in 1..Len(xb[m]) |-> Sub(xb[m][k], ma[m])]]

memory_diff(xi, yi) == [m \in DOMAIN xi |-> [k \in 1..Len(xi[m]) |-> Sub(xi[m][k], yi[m][k])]]

\* sigma * noise(diff)
Scaled(sigma, nz) == [m \in DOMAIN nz |-> [k \in 1..Len(nz[m]) |-> Mul(sigma, nz[m][k])]]

\* the rows of xa at the index arrays idx
Batch(xa, idx) == [m \in DOMAIN xa |-> Gather(xa[m], idx[m])]

\* The end of CBO.step: the assignment of the updated batch to x, given the
\* batch xb, the result cm of compute_mean, m_diff and the noise term s.
CBO_write(c, xa, bidx, xb, cm, md, sv) ==
    LET Assign(corr) ==
            [energy     |-> cm.energy,
             num_f_eval |-> cm.num_f_eval,
             m_alpha    |-> cm.mean,
             s          |-> sv,
             x          |-> [m \in DOMAIN xa |->
                                Scatter(xa[m], bidx[m],
                                    [k \in 1..Len(xb[m]) |->
                                        CBO_update(c, xb[m][k], md[m][k],
                                                   corr[m][k], sv[m][k])])]]
    IN  Assign(Force(Batch(Correction(xa), bidx)))

\* The values CBO.step computes from the positions xa, the batch bidx and
\* the noise realization of the given seed.
CBO_step(tab, c, nfe, xa, bidx, seed) ==
    LET Inter(xb, cm, md) ==
            CBO_write(c, xa, bidx, xb, cm, md,
                      Force(Scaled(c.sigma, Noise(c.dt, md, seed))))
        First(xb, cm) == Inter(xb, cm, Force(m_diff(xb, cm.mean)))
        Start(xb) == First(xb, CBO_compute_mean(tab, nfe, c.batch_size, xb))
    IN  Start(Force(Batch(xa, bidx)))

\* x[ind] - lamda*dt*m_diff*correction - lamda_memory*dt*memory_diff + s + s_memory
CBOMemory_update(c, xi, md, mem, corr, sv, sm) ==
    Add(Add(Sub(Sub(xi, Mul(Mul(Mul(c.lamda, c.dt), md), corr)),
                Mul(Mul(c.lamda_memory, c.dt), mem)),
            sv),
        sm)

\* y[ind] + (energy > energy_new) * (x[ind] - y[ind]): the mask is 1 or 0
CBOMemory_masked(yi, xi, e, enew) ==
    Add(yi, Mul(IF Gt(e, enew) THEN Num(1) ELSE Num(0), Sub(xi, yi)))

\* The end of CBOMemory.step: the assignment to x[ind], the evaluation of the
\* objective on the new x[ind] and the update of the memory, given the
\* gathered xi = x[ind], the result cm of compute_mean, the two differences
\* and the two noise terms.  The comparison of the stored energies (shape
\* [M, J]) with energy_new (shape of x[ind]) and the assignment to y[ind]
\* broadcast only when ind selects all J particles.
CBOMemory_write(tab, c, xa, ya, ena, ind, xi, cm, md, mem, sv, sm) ==
    LET E == DOMAIN xa
        fits == \A m \in E : Len(ind[m]) = Len(ena[m])
        Memory(xn, enew) ==
            [num_f_eval |-> cm.num_f_eval,
             m_alpha    |-> cm.mean,
             s          |-> sv,
             s_memory   |-> sm,
             x          |-> [m \in E |-> Scatter(xa[m], ind[m], xn[m])],
             broadcasts |-> fits,
             y          |-> IF fits
                            THEN [m \in E |->
                                    Scatter(ya[m], ind[m],
                                        [k \in 1..Len(xn[m]) |->
                                            CBOMemory_masked(ya[m][ind[m][k]], xn[m][k],
                                                             ena[m][k], enew[m][k])])]
                            ELSE ya,
             energy     |-> IF fits
                            THEN [m \in E |->
                                    [k \in 1..Len(ena[m]) |->
                                        Minimum(ena[m][k], enew[m][k])]]
                            ELSE ena]
        Eval(xn) == Memory(xn, Force(EvalF(tab, xn)))
        Assign(corr) ==
            Eval(Force([m \in E |->
                    [k \in 1..Len(xi[m]) |->
                        CBOMemory_update(c, xi[m][k], md[m][k], mem[m][k],
                                         corr[m][k], sv[m][k], sm[m][k])]]))
    IN  Assign(Force(Batch(Correction(xa), ind)))

\* The values CBOMemory.step computes from the positions xa, the memory ya,
\* the stored energies ena, the mean-index set mind, the update-index set
\* ind and the two noise realizations.
CBOMemory_step(tab, c, nfe, xa, ya, ena, mind, ind, seed, seed_memory) ==
    LET Inter(xi, cm, md, mem) ==
            CBOMemory_write(tab, c, xa, ya, ena, ind, xi, cm, md, mem,
                Force(Scaled(c.sigma, Noise(c.dt, md, seed))),
                Force(Scaled(c.sigma_memory, Noise(c.dt, mem, seed_memory))))
        First(xi, yi, cm) ==
            Inter(xi, cm, Force(m_diff(xi, cm.mean)), Force(memory_diff(xi, yi)))
        Start(xi, yi) ==
            First(xi, yi,
                  CBOMemory_compute_mean(nfe, c.batch_size, Force(Batch(ya, mind)),
                                         Force(Batch(ena, mind))))
    IN  Start(Force(Batch(xa, ind)), Force(Batch(ya, ind)))

\* -------------------------------------------------------------- state ---
VARIABLES
    variant,     \* "CBO" or "CBOMemory": the class of the dynamic
    f,           \* the objective (its table)
    cfg,         \* lamda, dt, sigma, batch_size, lamda_memory, sigma_memory
    x,           \* positions, shape [M, J]
    y,           \* memory positions (CBOMemory)
    energy,      \* CBO: energies of the last batch; CBOMemory: best energies
    x_old,       \* snapshot of x taken by the last step
    y_old,       \* snapshot of y taken by the last step (CBOMemory)
    batch_idx,   \* index arrays of the last step: the batch / mean-index set
    ind,         \* update-index arrays of the last step (CBOMemory)
    m_alpha,     \* consensus point of the last step, one per ensemble
    s,           \* sigma * noise(m_diff) of the last step
    s_memory,    \* sigma_memory * noise(memory_diff) of the last step
    num_f_eval,  \* evaluation counter, one per ensemble
    it,          \* number of completed steps, counted by post_step
    calls,       \* number of step() calls made
    last,        \* outcome of the last call: the constructor's or step's
    sigma_memory_arg  \* the sigma_memory argument the constructor was given

vars == <<variant, f, cfg, x, y, energy, x_old, y_old, batch_idx, ind,
          m_alpha, s, s_memory, num_f_eval, it, calls, last, sigma_memory_arg>>

\* the attribute is not set
Unset == <<>>

\* initial positions handed to the constructor
InitArrays ==
    {[m \in Ensembles |-> [j \in Particles |-> Num((m + j + o) % (MaxPos + 1))]] :
        o \in 0..MaxPos}

lamda == Num(1)

DtSet == {Num(1), Frac(1, 4)}

SigmaSet == {Num(0), Num(1)}

lamda_memory == Frac(2, 5)

\* the sigma_memory argument: <<>> is None, <<v>> the explicit value v
SigmaMemoryArgs == {<<>>, <<Num(2)>>}

\* CBO.__init__ (with the base class): positions, counters, configuration
CBO_init(x0, dt, sigma, B) ==
    [x          |-> x0,
     num_f_eval |-> [m \in Ensembles |-> 0],
     cfg        |-> [lamda |-> lamda, dt |-> dt, sigma |-> sigma, batch_size |-> B,
                     lamda_memory |-> Unset, sigma_memory |-> Unset]]

\* CBOMemory.__init__: with sigma_memory = None the scale is
\* lamda_memory * sigma; otherwise the constructor reads self.sigma_memory,
\* an attribute that nothing has set, and raises AttributeError.
CBOMemory_init(tab, x0, dt, sigma, B, lm, sm_arg) ==
    LET base == CBO_init(x0, dt, sigma, B)
    IN  [x          |-> base.x,
         num_f_eval |-> base.num_f_eval,
         y          |-> base.x,
         cfg        |-> [base.cfg EXCEPT !.lamda_memory = lm,
                                         !.sigma_memory = IF sm_arg = <<>>
                                                          THEN Mul(lm, sigma)
                                                          ELSE Unset],
         raised     |-> sm_arg # <<>>,
         energy     |-> IF sm_arg = <<>> THEN EvalF(tab, base.x) ELSE Unset]

InitCBO ==
    \E x0 \in InitArrays, tab \in Objectives, dt \in DtSet, sigma \in SigmaSet,
       B \in 1..J :
        LET o == CBO_init(x0, dt, sigma, B)
        IN  /\ variant = "CBO"
            /\ f = tab
            /\ cfg = o.cfg
            /\ x = o.x
            /\ num_f_eval = o.num_f_eval
            /\ y = Unset /\ energy = Unset /\ x_old = Unset /\ y_old = Unset
            /\ batch_idx = Unset /\ ind = Unset /\ m_alpha = Unset
            /\ s = Unset /\ s_memory = Unset
            /\ it = 0 /\ calls = 0
            /\ last = "constructed"
            /\ sigma_memory_arg = <<>>

InitCBOMemory ==
    \E x0 \in InitArrays, tab \in Objectives, dt \in DtSet, sigma \in SigmaSet,
       B \in 1..J, sm_arg \in SigmaMemoryArgs :
        LET o == CBOMemory_init(tab, x0, dt, sigma, B, lamda_memory, sm_arg)
        IN  /\ variant = "CBOMemory"
            /\ f = tab
            /\ cfg = o.cfg
            /\ x = o.x
            /\ num_f_eval = o.num_f_eval
            /\ y = o.y /\ energy = o.energy /\ x_old = Unset /\ y_old = Unset
            /\ batch_idx = Unset /\ ind = Unset /\ m_alpha = Unset
            /\ s = Unset /\ s_memory = Unset
            /\ it = 0 /\ calls = 0
            /\ last = IF o.raised THEN "AttributeError" ELSE "constructed"
            /\ sigma_memory_arg = sm_arg

Init == InitCBO \/ InitCBOMemory

\* ------------------------------------------------------------ actions ---
\* a dynamic exists and the caller makes another step() call
CanStep == last # "AttributeError" /\ calls < MaxSteps

\* CBO.step, every collaborator returning
CBOStep(o, seed) ==
    /\ CanStep /\ variant = "CBO"
    /\ \E r \in {CBO_step(f, cfg, num_f_eval, x, BatchIdx(o, cfg.batch_size), seed)} :
        /\ batch_idx' = BatchIdx(o, cfg.batch_size)
        /\ x_old' = x
        /\ energy' = r.energy
        /\ num_f_eval' = r.num_f_eval
        /\ m_alpha' = r.m_alpha
        /\ s' = r.s
        /\ x' = r.x
        /\ it' = it + 1
        /\ calls' = calls + 1
        /\ last' = "ok"
        /\ UNCHANGED <<variant, f, cfg, y, y_old, ind, s_memory, sigma_memory_arg>>

\* the collaborator calls of CBO.step, in the order the step makes them
CBOPoints == {"objective", "noise", "correction"}

\* CBO.step when the collaborator call at the given point raises: the
\* objective (in compute_mean, before the counter is incremented), the noise
\* model, or the correction (evaluated before x is assigned).
CBOStepRaises(o, seed, point) ==
    /\ CanStep /\ variant = "CBO"
    /\ point \in CBOPoints
    /\ \E r \in {CBO_step(f, cfg, num_f_eval, x, BatchIdx(o, cfg.batch_size), seed)} :
        /\ batch_idx' = BatchIdx(o, cfg.batch_size)
        /\ x_old' = x
        /\ IF point = "objective"
           THEN UNCHANGED <<energy, num_f_eval, m_alpha>>
           ELSE /\ energy' = r.energy
                /\ num_f_eval' = r.num_f_eval
                /\ m_alpha' = r.m_alpha
        /\ IF point = "correction" THEN s' = r.s ELSE UNCHANGED s
        /\ calls' = calls + 1
        /\ last' = point
        /\ UNCHANGED <<variant, f, cfg, x, y, y_old, ind, s_memory, it, sigma_memory_arg>>

\* the update-index sets the batching collaborator may supply: every
\* particle, or a window of batch_size particles of its own
UpdateIdx(B) == {[m \in Ensembles |-> AllIdx]} \cup {BatchIdx(o, B) : o \in Offsets}

\* CBOMemory.step, every collaborator returning.  When the update-index set
\* does not select all particles the memory update raises ValueError, after
\* x[ind] was assigned.
CBOMemoryStep(o, uidx, seed, seed_memory) ==
    /\ CanStep /\ variant = "CBOMemory"
    /\ uidx \in UpdateIdx(cfg.batch_size)
    /\ \E r \in {CBOMemory_step(f, cfg, num_f_eval, x, y, energy,
                                BatchIdx(o, cfg.batch_size), uidx, seed, seed_memory)} :
        /\ batch_idx' = BatchIdx(o, cfg.batch_size)
        /\ ind' = uidx
        /\ x_old' = x
        /\ y_old' = y
        /\ num_f_eval' = r.num_f_eval
        /\ m_alpha' = r.m_alpha
        /\ s' = r.s
        /\ s_memory' = r.s_memory
        /\ x' = r.x
        /\ y' = r.y
        /\ energy' = r.energy
        /\ it' = IF r.broadcasts THEN it + 1 ELSE it
        /\ calls' = calls + 1
        /\ last' = IF r.broadcasts THEN "ok" ELSE "ValueError"
        /\ UNCHANGED <<variant, f, cfg, sigma_memory_arg>>

\* the collaborator calls of CBOMemory.step, in the order the step makes them
CBOMemoryPoints == {"noise", "noise_memory", "correction", "objective"}

\* CBOMemory.step when the collaborator call at the given point raises: the
\* first or the second noise call, the correction (evaluated before x[ind]
\* is assigned), or the objective on the new x[ind] (after it is assigned).
CBOMemoryStepRaises(o, uidx, seed, seed_memory, point) ==
    /\ CanStep /\ variant = "CBOMemory"
    /\ uidx \in UpdateIdx(cfg.batch_size)
    /\ point \in CBOMemoryPoints
    /\ \E r \in {CBOMemory_step(f, cfg, num_f_eval, x, y, energy,
                                BatchIdx(o, cfg.batch_size), uidx, seed, seed_memory)} :
        /\ batch_idx' = BatchIdx(o, cfg.batch_size)
        /\ ind' = uidx
        /\ x_old' = x
        /\ y_old' = y
        /\ num_f_eval' = r.num_f_eval
        /\ m_alpha' = r.m_alpha
        /\ IF point = "noise" THEN UNCHANGED s ELSE s' = r.s
        /\ IF point \in {"noise", "noise_memory"}
           THEN UNCHANGED s_memory ELSE s_memory' = r.s_memory
        /\ IF point = "objective" THEN x' = r.x ELSE UNCHANGED x
        /\ calls' = calls + 1
        /\ last' = point
        /\ UNCHANGED <<variant, f, cfg, y, energy, it, sigma_memory_arg>>

Next ==
    \/ \E o \in Offsets, seed \in NoiseSeeds : CBOStep(o, seed)
    \/ \E o \in Offsets, seed \in NoiseSeeds, point \in CBOPoints :
            CBOStepRaises(o, seed, point)
    \/ \E o \in Offsets, uidx \in UpdateIdx(J), seed \in NoiseSeeds,
          seed_memory \in NoiseSeeds :
            CBOMemoryStep(o, uidx, seed, seed_memory)
    \/ \E o \in Offsets, uidx \in UpdateIdx(J), seed \in NoiseSeeds,
          seed_memory \in NoiseSeeds, point \in CBOMemoryPoints :
            CBOMemoryStepRaises(o, uidx, seed, seed_memory, point)

Spec == Init /\ [][Next]_vars

\* The same dynamics from the dynamics constructed with dt = 1/4, sigma = 1
\* and an objective that is 0 on the positions <= 1.
InitIsolation == Init /\ cfg.dt = Frac(1, 4) /\ cfg.sigma = Num(1) /\ f.lo = Num(0)

SpecIsolation == InitIsolation /\ [][Next]_vars

\* ------------------------------------------------------------- claims ---
Constructed == last # "AttributeError"

Raised == CBOPoints \cup CBOMemoryPoints

\* C1: in CBOMemory no step increases a stored best energy: for every
\* particle the energy after the step is the energy before it or is <= it.
C1_BestEnergyNonIncreasing ==
    [][variant = "CBOMemory" =>
        \A m \in Ensembles, j \in Particles :
            energy'[m][j] = energy[m][j] \/ Le(energy'[m][j], energy[m][j])]_vars

\* C2: in CBOMemory, after construction and after every step, the objective
\* at the memory position of a particle is its stored best energy (equal as
\* values, so that a NaN energy stored for a position of NaN energy counts).
C2_MemoryMatchesEnergy ==
    (variant = "CBOMemory" /\ Constructed) =>
        \A m \in Ensembles, j \in Particles : Objective(f, y[m][j]) = energy[m][j]

\* C3: in CBOMemory with a constant objective no step changes the memory
\* positions or the stored best energies.
C3_ConstantObjectiveKeepsMemory ==
    [][(variant = "CBOMemory" /\ f.lo = f.hi) => (y' = y /\ energy' = energy)]_vars

\* C4: no call decreases a counter, a step that completes adds batch_size to
\* the counter of every ensemble, and after n steps that all completed every
\* counter is n * batch_size.
C4_CountersAdvanceByBatchSize ==
    [][\A m \in Ensembles :
        /\ num_f_eval'[m] >= num_f_eval[m]
        /\ last' = "ok" => num_f_eval'[m] = num_f_eval[m] + cfg.batch_size
        /\ it' = calls' => num_f_eval'[m] = it' * cfg.batch_size]_vars

C4_Witness ==
    /\ it = MaxSteps /\ calls = MaxSteps
    /\ cfg.batch_size > 1
    /\ \A m \in Ensembles : num_f_eval[m] = MaxSteps * cfg.batch_size

\* C5: a step in which a collaborator call raises leaves the positions, and
\* in CBOMemory the memory positions and the stored best energies, as they
\* were before the step.
C5_StepIsAtomic ==
    [][last' \in Raised =>
        (x' = x /\ y' = y /\ (variant = "CBOMemory" => energy' = energy))]_vars

\* the energies the consensus of ensemble m is computed from in this step
ConsensusEnergies(m) ==
    IF variant = "CBO" THEN energy'[m] ELSE Gather(energy[m], batch_idx'[m])

\* C6: a step whose consensus computation meets a batch of only non-finite
\* energies produces no NaN consensus point and writes no NaN position.
C6_NoNaNConsensus ==
    [][\A m \in Ensembles :
        (/\ last' # "objective" \/ variant = "CBOMemory"
         /\ \A k \in 1..Len(ConsensusEnergies(m)) : ~IsFinite(ConsensusEnergies(m)[k]))
        => (/\ ~IsNaN(m_alpha'[m])
            /\ \A j \in Particles : IsNaN(x'[m][j]) => IsNaN(x[m][j]))]_vars

InBatch(m, j) == \E k \in 1..Len(batch_idx[m]) : batch_idx[m][k] = j

\* C7: in CBO a step changes no position outside the batch: a particle that
\* is not in the batch of its ensemble is where it was before the step.
C7_OnlyBatchWritten ==
    (variant = "CBO" /\ calls > 0) =>
        \A m \in Ensembles, j \in Particles : ~InBatch(m, j) => x[m][j] = x_old[m][j]

C7_Witness ==
    /\ variant = "CBO" /\ last = "ok"
    /\ \E m \in Ensembles, j \in Particles : ~InBatch(m, j)
    /\ \E m \in Ensembles, j \in Particles : InBatch(m, j) /\ x[m][j] # x_old[m][j]

\* the conditions of C8: no noise, full batch, lamda * dt = 1 (the
\* correction is the identity)
PlainFullStep ==
    /\ variant = "CBO" /\ last = "ok"
    /\ cfg.sigma = Num(0)
    /\ cfg.batch_size = J
    /\ Mul(cfg.lamda, cfg.dt) = Num(1)

C9_SigmaMemoryFixed ==
    variant = "CBOMemory" =>
        /\ Constructed
        /\ cfg.sigma_memory = IF sigma_memory_arg = <<>>
                              THEN Mul(cfg.lamda_memory, cfg.sigma)
                              ELSE sigma_memory_arg[1]

\* the array arr with the row of every ensemble but m replaced
Others(arr, m, row) == [n \in DOMAIN arr |-> IF n = m THEN arr[n] ELSE row]

\* a row of J equal values
Row(v) == [j \in Particles |-> v]

\* the states the other ensembles are replaced by: all NaN, or all at 3
Elsewhere == {NaN, Num(3)}

\* CBO.step with the noise term given
CBO_given(tab, c, nfe, xa, bidx, sv) ==
    LET First(xb, cm) == CBO_write(c, xa, bidx, xb, cm, Force(m_diff(xb, cm.mean)), sv)
        Start(xb) == First(xb, CBO_compute_mean(tab, nfe, c.batch_size, xb))
    IN  Start(Force(Batch(xa, bidx)))

\* CBOMemory.step with the two noise terms given
CBOMemory_given(tab, c, nfe, xa, ya, ena, mind, uidx, sv, sm) ==
    LET First(xi, yi, cm) ==
            CBOMemory_write(tab, c, xa, ya, ena, uidx, xi, cm,
                            Force(m_diff(xi, cm.mean)), Force(memory_diff(xi, yi)), sv, sm)
        Start(xi, yi) ==
            First(xi, yi,
                  CBOMemory_compute_mean(nfe, c.batch_size, Force(Batch(ya, mind)),
                                         Force(Batch(ena, mind))))
    IN  Start(Force(Batch(xa, uidx)), Force(Batch(ya, uidx)))

\* ensemble m of this step's result is what the step computes for it when
\* the other ensembles are in the state v
Isolated(m, v) ==
    IF variant = "CBO"
    THEN \E r \in {CBO_given(f, cfg, num_f_eval, Others(x, m, Row(v)), batch_idx', s')} :
            /\ r.m_alpha[m] = m_alpha'[m]
            /\ r.energy[m] = energy'[m]
            /\ r.x[m] = x'[m]
    ELSE \E r \in {CBOMemory_given(f, cfg, num_f_eval, Others(x, m, Row(v)),
                                   Others(y, m, Row(v)),
                                   Others(energy, m, Row(Objective(f, v))),
                                   batch_idx', ind', s', s_memory')} :
            /\ r.m_alpha[m] = m_alpha'[m]
            /\ r.x[m] = x'[m]
            /\ r.y[m] = y'[m]
            /\ r.energy[m] = energy'[m]

\* C10: the consensus point and the new positions, memory and energies of
\* an ensemble are the same in a step that starts from the same state of
\* this ensemble, the same index sets and the same noise terms, and from
\* another state of the other ensembles.
C10_EnsemblesDoNotInteract ==
    [][last' = "ok" => \A m \in Ensembles, v \in Elsewhere : Isolated(m, v)]_vars

C10_Witness ==
    /\ last = "ok" /\ it = MaxSteps
    /\ variant = "CBOMemory"
    /\ cfg.batch_size < J
    /\ \E m, n \in Ensembles : IsFinite(m_alpha[m]) /\ IsFinite(m_alpha[n]) /\ m_alpha[m] # m_alpha[n]
    /\ \E m \in Ensembles : y[m] # x[m] /\ y[m] # y_old[m]

====
